---- MODULE Spec2Model ----
(***************************************************************************)
(* State-machine model of the LVC-SSI framework: the credential manager    *)
(* (src/src/vc/vc_manager.py), the simulation gateway                      *)
(* (src/src/sig/simulation_gateway.py), the proof pipeline                 *)
(* (src/src/zkp/zkp_prover.py) and the DID registry                        *)
(* (src/src/did/did_manager.py).                                           *)
(***************************************************************************)
EXTENDS Integers, Sequences, FiniteSets, TLC

(***************************************************************************)
(* Bounds of the model.                                                    *)
(***************************************************************************)
MaxTicks == 2
MaxDidCalls == 2
MaxGenCalls == 3
MaxConcurrentCalls == 2
MaxAccessCalls == 2

(***************************************************************************)
(* Program constants.                                                      *)
(***************************************************************************)
vc_cache_ttl == 300
did_cache_ttl == 300
gw_cache_ttl == 300
SecondsPerDay == 86400

\* The clock advances by one second, by one cache TTL or by one day.
TickSteps == {1, vc_cache_ttl, SecondsPerDay}

\* Key pairs: a private key PEM and its public key PEM share one key id.
KeyIds == {"k1", "k2"}
SubjectDIDs == {"D2"}
IssuerDIDs == {"D1"}
CredentialTypes == {"simulation_access"}
ValidityDays == {0, 1}
\* issue_credential is called at these clock values.
IssueTimes == {0}
AttributeSets == {[role |-> "operator", clearance_level |-> "high"],
                  [role |-> "observer", clearance_level |-> "low"]}

VARIABLES
  now,                 \* time.time() / datetime.utcnow(), in seconds
  ticks,               \* number of clock advances so far
  issued_vcs,          \* VCManager.issued_vcs: credential id -> credential
  revoked_vcs,         \* VCManager.revoked_vcs
  verification_cache,  \* VCManager.verification_cache: key -> [valid, ts]
  vcLast,              \* the last VCManager call and what it returned
  storage_file,        \* DIDManager.storage_file: the durable DID store
  did_documents,       \* DIDManager.did_documents: did -> document
  did_cache,           \* DIDManager.did_cache: did -> [doc, ts]
  did_lock,            \* DIDManager._lock: the task holding it, or NoTask
  didPc,               \* where each registry task stands
  didOp,               \* the call each registry task makes
  didArg,              \* the DID it is about
  didBuf,              \* the documents a task carries (file content, new doc)
  didRet,              \* what each call returned
  circuit_cache,       \* ZKPProver._circuit_cache: circuits compiled
  setup_cache,         \* ZKPProver._setup_cache: circuits set up
  witness_cache,       \* ZKPProver._witness_cache: witnesses computed
  proof_cache,         \* ZKPProver.proof_cache: proof id -> proof
  proof_file,          \* circuits/proof.json: the witness it was made from
  witness_file,        \* circuits/<circuit>.wtns: the inputs each was computed from
  genPc,               \* where each generate_proof call stands
  genReq,              \* its credential and proof type
  genPrior,            \* the equal calls that had succeeded when it began
  genCalls,            \* backend commands it has run
  genRet,              \* what it returned
  genTask,             \* the three tasks of each call: stage and phase
  genFailed,           \* the backend commands of a call that failed, and how
  genRetried,          \* a call ran a stage again after that stage had failed
  circuit_lock,        \* ZKPProver._circuit_lock: the task holding it
  backend,             \* backend commands in flight on executor threads
  executor_shutdown,   \* ZKPProver._executor has been shut down
  verifier_cache,      \* ZKPProver._verifier_cache: keys verified
  verLast,             \* the last verify_proof call and what it returned
  access_policies,     \* SimulationGateway.access_policies
  access_cache,        \* SimulationGateway.access_cache: key -> (is_valid, reason)
  access_logs,         \* SimulationGateway.access_logs
  gwLast,              \* the last handle_access_request call and its outcome
  gwCalls,             \* handle_access_request calls made
  logs_read            \* what the last get_access_logs call returned

vcVars == <<issued_vcs, revoked_vcs, verification_cache, vcLast>>
clockVars == <<now, ticks>>
gwVars == <<access_policies, access_cache, access_logs, gwLast, gwCalls,
            logs_read>>
zkpVars == <<circuit_cache, setup_cache, witness_cache, proof_cache, proof_file,
             witness_file,
             genPc, genReq, genPrior, genCalls, genRet, genTask, genFailed,
             genRetried, circuit_lock, backend, executor_shutdown>>
verVars == <<verifier_cache, verLast>>
didVars == <<storage_file, did_documents, did_cache, did_lock, didPc, didOp,
             didArg, didBuf, didRet>>

(***************************************************************************)
(* Credentials and their JWT proof (vc_manager.py, issue_credential).      *)
(***************************************************************************)
\* credential_id = f"vc:{subject_did}:{credential_type}:{int(time.time())}"
CredentialId(subject_did, credential_type, t) == <<subject_did, credential_type, t>>

\* The keys of the JWT payload built by issue_credential: there is no "id".
IssuedPayloadKeys == {"iss", "sub", "iat", "exp", "jti", "vc"}

\* private_key.sign(message, padding.PSS(...), SHA256): an RSASSA-PSS signature
\* under a header that announces "alg": "RS256".
SignJwt(private_key, credential_id) ==
  [alg |-> "RS256", scheme |-> "PSS", signer |-> private_key,
   payload_keys |-> IssuedPayloadKeys, payload_id |-> credential_id]

BuildCredential(subject_did, issuer_did, credential_type, attributes, private_key, validity_days, t) ==
  LET cid == CredentialId(subject_did, credential_type, t)
  IN [id |-> cid, issuer |-> issuer_did, subject |-> subject_did,
      issuanceDate |-> t,
      expirationDate |-> t + validity_days * SecondsPerDay,
      attributes |-> attributes,
      jwt |-> SignJwt(private_key, cid)]

\* Tokens a caller can attach to a presented credential: the issued one, or
\* a token built outside the VCManager: a PyJWT RS256 token (RSASSA-PKCS1-v1_5)
\* of any signer whose payload carries "id".
ForgedJwt(private_key, credential_id) ==
  [alg |-> "RS256", scheme |-> "PKCS1v15", signer |-> private_key,
   payload_keys |-> {"id"}, payload_id |-> credential_id]

PresentedTokens(cred) ==
  {cred.jwt} \cup {ForgedJwt(k, cred.id) : k \in KeyIds}

PresentedCredentials ==
  UNION {{[issued_vcs[i] EXCEPT !.jwt = t] : t \in PresentedTokens(issued_vcs[i])} :
             i \in DOMAIN issued_vcs}

\* jwt.decode(token, public_key, algorithms=['RS256']): PyJWT checks an
\* RSASSA-PKCS1-v1_5 signature; any other signature raises InvalidSignatureError.
JwtDecodeOk(token, public_key) ==
  /\ token.alg = "RS256"
  /\ token.scheme = "PKCS1v15"
  /\ token.signer = public_key

\* Lines 154-193: decode, then payload["id"] == credential["id"]; every
\* exception (bad signature, KeyError on "id") gives False.
SignatureAndPayloadCheck(credential, public_key) ==
  IF ~JwtDecodeOk(credential.jwt, public_key) THEN FALSE
  ELSE IF "id" \notin credential.jwt.payload_keys THEN FALSE
  ELSE credential.jwt.payload_id = credential.id

VerificationCacheKey(credential, public_key) == <<credential.id, public_key>>

CacheHit(key) ==
  /\ key \in DOMAIN verification_cache
  /\ now - verification_cache[key].ts < vc_cache_ttl

IsRevoked(credential) == credential.id \in revoked_vcs

\* datetime.fromisoformat(credential["expirationDate"]) < datetime.utcnow()
IsExpired(credential) == credential.expirationDate < now

\* The value verify_credential computes when it is not answered from the cache.
FreshVerification(credential, public_key) ==
  IF IsRevoked(credential) THEN FALSE
  ELSE IF IsExpired(credential) THEN FALSE
  ELSE SignatureAndPayloadCheck(credential, public_key)

VerifyResult(credential, public_key) ==
  IF CacheHit(VerificationCacheKey(credential, public_key))
  THEN verification_cache[VerificationCacheKey(credential, public_key)].valid
  ELSE FreshVerification(credential, public_key)

NoCall == [op |-> "none", id |-> <<>>, key |-> "", result |-> FALSE,
           issued |-> FALSE, revoked |-> FALSE, expired |-> FALSE, hit |-> FALSE]

(***************************************************************************)
(* VCManager operations.                                                   *)
(***************************************************************************)
IssueCredential(subject_did, issuer_did, credential_type, attributes, private_key, validity_days) ==
  LET cred == BuildCredential(subject_did, issuer_did, credential_type,
                              attributes, private_key, validity_days, now)
  IN /\ now \in IssueTimes
     /\ issued_vcs' = (cred.id :> cred) @@ issued_vcs
     /\ vcLast' = [NoCall EXCEPT !.op = "issue", !.id = cred.id,
                                 !.key = private_key, !.result = TRUE,
                                 !.issued = TRUE]
     /\ UNCHANGED <<revoked_vcs, verification_cache>>

\* A verify_credential that caches its successes only.
CacheSuccessOnly(key, is_valid) ==
  IF is_valid THEN (key :> [valid |-> is_valid, ts |-> now]) @@ verification_cache
  ELSE verification_cache

\* self.verification_cache[cache_key] = (is_valid, time.time()) of lines
\* 145, 151, 187 and 192.
CacheVerification(key, is_valid) ==
  (key :> [valid |-> is_valid, ts |-> now]) @@ verification_cache

VerifyCredential(credential, public_key) ==
  LET key == VerificationCacheKey(credential, public_key)
      hit == CacheHit(key)
      res == VerifyResult(credential, public_key)
  IN /\ verification_cache' =
          IF hit THEN verification_cache
          ELSE CacheVerification(key, res)
     /\ vcLast' = [op |-> "verify", id |-> credential.id, key |-> public_key,
                   result |-> res,
                   issued |-> (credential = issued_vcs[credential.id]),
                   revoked |-> IsRevoked(credential),
                   expired |-> IsExpired(credential),
                   hit |-> hit]
     /\ UNCHANGED <<issued_vcs, revoked_vcs>>

UnknownCredentialId == CredentialId("D9", "simulation_access", 0)

\* A revoke_credential that takes an id that is in the set out of it.
RevokedToggled(credential_id) ==
  IF credential_id \in revoked_vcs THEN revoked_vcs \ {credential_id}
  ELSE revoked_vcs \cup {credential_id}

\* revoke_credential, line 201: self.revoked_vcs.add(credential_id).
RevokedAdded(credential_id) == revoked_vcs \cup {credential_id}

RevokeCredential(credential_id) ==
  /\ revoked_vcs' = IF credential_id \in DOMAIN issued_vcs
                    THEN RevokedAdded(credential_id)
                    ELSE revoked_vcs
  /\ vcLast' = [NoCall EXCEPT !.op = "revoke", !.id = credential_id,
                              !.result = (credential_id \in DOMAIN issued_vcs),
                              !.revoked = (credential_id \in revoked_vcs)]
  /\ UNCHANGED <<issued_vcs, verification_cache>>

Tick(d) ==
  /\ ticks < MaxTicks
  /\ now' = now + d
  /\ ticks' = ticks + 1


(***************************************************************************)
(* DID registry (did_manager.py).  Every call is a task of the event loop; *)
(* a task runs without interruption up to its next suspension point.       *)
(* Task 0 is the _load_documents task that __init__ creates, tasks         *)
(* 1..MaxDidCalls each make one create_did, resolve_did or revoke_did call.*)
(***************************************************************************)
LoaderTask == 0
DidCallers == 1..MaxDidCalls
DidTasks == {LoaderTask} \cup DidCallers
NoTask == -1

DIDs == {"D1", "D2"}
ParticipantTypes == {"commander"}

\* didkit.key_to_did("key", jwk): the DID is derived from the public key.
DidOfKey(k) == IF k = "k1" THEN "D1" ELSE "D2"

DidDocument(k, participant_type) ==
  [id |-> DidOfKey(k), publicKeyPem |-> k, privateKeyPem |-> k,
   participantType |-> participant_type]

\* data/did_documents.json as found when the registry is constructed.
NoStorageFile == [exists |-> FALSE, docs |-> <<>>]
StorageFileWith(keys) ==
  [exists |-> TRUE,
   docs |-> [d \in {DidOfKey(k) : k \in keys} |->
               DidDocument(CHOOSE k \in keys : DidOfKey(k) = d, "commander")]]
StorageChoices ==
  {NoStorageFile, StorageFileWith({"k1"}), StorageFileWith({"k1", "k2"})}

NoReturn == [kind |-> "none", did |-> "", ok |-> FALSE, half |-> FALSE,
             revoking |-> FALSE, save |-> "none"]

\* os.makedirs(..., exist_ok=True) in _save_documents, line 48: it raises
\* when the data directory cannot be made.
MakedirsOutcomes == {"ok", "fail"}

LockFree == did_lock = NoTask

DidCacheHit(did) ==
  /\ did \in DOMAIN did_cache
  /\ now - did_cache[did].ts < did_cache_ttl

Without(f, k) == [x \in DOMAIN f \ {k} |-> f[x]]

\* A revoke_did(did) call has been made and has not returned.
RevokeInFlight(did) ==
  \E t \in DidCallers :
     /\ didOp[t] = "revoke" /\ didArg[t] = did
     /\ didPc[t] \in {"revoke_lock", "revoke_half", "save_lock"}

\* The document of did is gone from did_documents and still in did_cache.
HalfRevoked(did) ==
  \E t \in DidCallers : didPc[t] = "revoke_half" /\ didArg[t] = did

\* _load_documents, lines 28-30: the file is opened and read.
DidLoadRead(t) ==
  /\ didPc[t] = "load_start"
  /\ IF storage_file.exists
     THEN /\ didPc' = [didPc EXCEPT ![t] = "load_lock"]
          /\ didBuf' = [didBuf EXCEPT ![t] = storage_file.docs]
     ELSE /\ didPc' = [didPc EXCEPT ![t] = "done"]
          /\ UNCHANGED didBuf
  /\ UNCHANGED <<storage_file, did_documents, did_cache, did_lock, didOp,
                 didArg, didRet>>

\* _load_documents, lines 31-38: under the lock, replace store and cache.
DidLoadAssign(t) ==
  /\ didPc[t] = "load_lock"
  /\ didOp[t] = "load"
  /\ LockFree
  /\ did_documents' = didBuf[t]
  /\ did_cache' = [d \in DOMAIN didBuf[t] |-> [doc |-> didBuf[t][d], ts |-> now]]
  /\ didPc' = [didPc EXCEPT ![t] = "done"]
  /\ UNCHANGED <<storage_file, did_lock, didOp, didArg, didRet, didBuf>>

\* create_did, lines 66-120: key generation and DID derivation.
DidCreateStart(t, participant_type, k) ==
  /\ didPc[t] = "idle"
  /\ DidOfKey(k) \notin DOMAIN did_documents \cup DOMAIN storage_file.docs
  /\ \A u \in DidCallers : ~(didOp[u] = "create" /\ didArg[u] = DidOfKey(k))
  /\ didPc' = [didPc EXCEPT ![t] = "create_lock"]
  /\ didOp' = [didOp EXCEPT ![t] = "create"]
  /\ didArg' = [didArg EXCEPT ![t] = DidOfKey(k)]
  /\ didBuf' = [didBuf EXCEPT ![t] =
                   (DidOfKey(k) :> DidDocument(k, participant_type))]
  /\ UNCHANGED <<storage_file, did_documents, did_cache, did_lock, didRet>>

\* create_did, lines 123-126: under the lock, insert into cache and store,
\* then await _save_documents(), which acquires the same asyncio.Lock (line
\* 49).  asyncio.Lock is not reentrant: the task waits for a lock it holds
\* itself, so it stays at "save_lock" and the file is never written.
\* When os.makedirs raises (line 48, before the lock is asked for),
\* _save_documents re-raises (52-54), the "async with" of line 123 releases
\* the lock and create_did re-raises (130-132).
CreateSaveFailureSwallowed(t) ==
  [NoReturn EXCEPT !.kind = "created", !.did = didArg[t], !.save = "failed"]

CreateSaveFailed(t) ==
  [NoReturn EXCEPT !.kind = "raise", !.did = didArg[t], !.save = "failed"]

DidCreateStore(t, makedirs) ==
  /\ didPc[t] = "create_lock"
  /\ LockFree
  /\ did_cache' = (didArg[t] :> [doc |-> didBuf[t][didArg[t]], ts |-> now])
                     @@ did_cache
  /\ did_documents' = (didArg[t] :> didBuf[t][didArg[t]]) @@ did_documents
  /\ IF makedirs = "ok"
     THEN /\ did_lock' = t
          /\ didPc' = [didPc EXCEPT ![t] = "save_lock"]
          /\ UNCHANGED didRet
     ELSE /\ did_lock' = NoTask
          /\ didPc' = [didPc EXCEPT ![t] = "done"]
          /\ didRet' = [didRet EXCEPT ![t] = CreateSaveFailed(t)]
  /\ UNCHANGED <<storage_file, didOp, didArg, didBuf>>

\* resolve_did, line 144: "async with self._lock".
ResolveEntersUnlocked(t) == TRUE

ResolveMayEnter(t) == LockFree

\* The document is one create_did built, whole, for the DID asked for.
CompleteDocument(doc, did) ==
  /\ doc = DidDocument(doc.publicKeyPem, doc.participantType)
  /\ doc.id = did

DidResolveStart(t, did) ==
  /\ didPc[t] = "idle"
  /\ didPc' = [didPc EXCEPT ![t] = "resolve_lock"]
  /\ didOp' = [didOp EXCEPT ![t] = "resolve"]
  /\ didArg' = [didArg EXCEPT ![t] = did]
  /\ UNCHANGED <<storage_file, did_documents, did_cache, did_lock, didRet,
                 didBuf>>

\* resolve_did, lines 144-168, under the lock: cache, then memory, then
\* _load_documents().  With no storage file the reload returns at once and
\* the result is None.  With a storage file the reload reads it and then
\* acquires the lock this task already holds (line 31): the task stays at
\* "reload_lock" holding the lock.
DidResolveRun(t) ==
  LET did == didArg[t]
      purged == IF did \in DOMAIN did_cache /\ ~DidCacheHit(did)
                THEN Without(did_cache, did) ELSE did_cache
      seen == [NoReturn EXCEPT !.did = did, !.half = HalfRevoked(did),
                               !.revoking = RevokeInFlight(did)]
  IN
  /\ didPc[t] = "resolve_lock"
  /\ ResolveMayEnter(t)
  /\ IF DidCacheHit(did)
     THEN /\ didRet' = [didRet EXCEPT ![t] =
                 [seen EXCEPT !.kind = "doc", !.ok = CompleteDocument(did_cache[did].doc, did)]]
          /\ didPc' = [didPc EXCEPT ![t] = "done"]
          /\ UNCHANGED <<did_cache, did_lock>>
     ELSE IF did \in DOMAIN did_documents
     THEN /\ did_cache' = (did :> [doc |-> did_documents[did], ts |-> now])
                             @@ purged
          /\ didRet' = [didRet EXCEPT ![t] =
                 [seen EXCEPT !.kind = "doc", !.ok = CompleteDocument(did_documents[did], did)]]
          /\ didPc' = [didPc EXCEPT ![t] = "done"]
          /\ UNCHANGED did_lock
     ELSE IF ~storage_file.exists
     THEN /\ did_cache' = purged
          /\ didRet' = [didRet EXCEPT ![t] = [seen EXCEPT !.kind = "notfound"]]
          /\ didPc' = [didPc EXCEPT ![t] = "done"]
          /\ UNCHANGED did_lock
     ELSE /\ did_cache' = purged
          /\ did_lock' = t
          /\ didPc' = [didPc EXCEPT ![t] = "reload_lock"]
          /\ didRet' = [didRet EXCEPT ![t] = seen]
  /\ UNCHANGED <<storage_file, did_documents, didOp, didArg, didBuf>>

DidRevokeStart(t, did) ==
  /\ didPc[t] = "idle"
  /\ didPc' = [didPc EXCEPT ![t] = "revoke_lock"]
  /\ didOp' = [didOp EXCEPT ![t] = "revoke"]
  /\ didArg' = [didArg EXCEPT ![t] = did]
  /\ UNCHANGED <<storage_file, did_documents, did_cache, did_lock, didRet,
                 didBuf>>

\* A revoke_did that answers True for a DID it does not hold.
RevokeUnknownAccepted(t) ==
  [NoReturn EXCEPT !.kind = "bool", !.did = didArg[t], !.ok = TRUE]

\* revoke_did, line 188: "return False" when did is not in did_documents.
RevokeUnknown(t) ==
  [NoReturn EXCEPT !.kind = "bool", !.did = didArg[t], !.ok = FALSE]

\* revoke_did, lines 181-183 and 188: take the lock; an unknown DID returns
\* False, a known one is deleted from did_documents.
DidRevokeRun(t) ==
  /\ didPc[t] = "revoke_lock"
  /\ LockFree
  /\ IF didArg[t] \in DOMAIN did_documents
     THEN /\ did_documents' = Without(did_documents, didArg[t])
          /\ did_lock' = t
          /\ didPc' = [didPc EXCEPT ![t] = "revoke_half"]
          /\ UNCHANGED didRet
     ELSE /\ didRet' = [didRet EXCEPT ![t] = RevokeUnknown(t)]
          /\ didPc' = [didPc EXCEPT ![t] = "done"]
          /\ UNCHANGED <<did_documents, did_lock>>
  /\ UNCHANGED <<storage_file, did_cache, didOp, didArg, didBuf>>

\* revoke_did, lines 184-186: delete from did_cache, then await
\* _save_documents(), which waits for the lock this task holds.  When
\* os.makedirs raises first, the lock is released and the except clause of
\* lines 189-191 returns False.
DidRevokeCache(t, makedirs) ==
  /\ didPc[t] = "revoke_half"
  /\ did_cache' = Without(did_cache, didArg[t])
  /\ IF makedirs = "ok"
     THEN /\ didPc' = [didPc EXCEPT ![t] = "save_lock"]
          /\ UNCHANGED <<did_lock, didRet>>
     ELSE /\ did_lock' = NoTask
          /\ didPc' = [didPc EXCEPT ![t] = "done"]
          /\ didRet' = [didRet EXCEPT ![t] =
                 [NoReturn EXCEPT !.kind = "bool", !.did = didArg[t],
                                  !.ok = FALSE, !.save = "failed"]]
  /\ UNCHANGED <<storage_file, did_documents, didOp, didArg, didBuf>>


(***************************************************************************)
(* Proof pipeline (zkp_prover.py).  Callers 1..MaxGenCalls each make one   *)
(* generate_proof call.  A call creates three tasks (lines 301-303):       *)
(* _compile_circuit, _setup_circuit (which compiles first) and             *)
(* _compute_witness (which sets up first), and gathers them.  A backend    *)
(* command (_run_zokrates_command) runs on an executor thread; the task    *)
(* that started it is suspended until it ends.  A thread cannot be         *)
(* cancelled: when its task is cancelled or its wait_for expires, the      *)
(* command goes on running with nobody waiting for it.                     *)
(***************************************************************************)
GenCallers == 1..MaxGenCalls
\* The callers of the specifications in which calls overlap.
ConcurrentCallers == 1..MaxConcurrentCalls
ProofTypes == {"access_control", "no_such_circuit"}
\* The .zok sources present in the circuits directory.
CircuitSources == {"access_control", "range_check"}
PrivateInputs == {[role |-> "operator", clearance_level |-> "high"]}
\* A command exits with 0, exits non-zero, or outlasts its timeout.
BackendOutcomes == {"ok", "fail", "timeout"}

\* Credentials handed to generate_proof: as issue_credential returns them.
ProofCredentials ==
  {BuildCredential("D2", "D1", "simulation_access",
                   [role |-> "operator", clearance_level |-> "high"], "k1", 1, t) :
     t \in {0, 1}}

\* _generate_proof_id: base64(HKDF-SHA256(f"{credential_id}:{proof_type}")),
\* a function of the credential id and the proof type alone.
GenerateProofId(credential_id, proof_type) == <<credential_id, proof_type>>

\* _compute_witness, lines 204-206: circuit name and hash of the inputs.
WitnessCacheKey(circuit_name, credential, private_inputs) ==
  <<circuit_name, credential.id, credential.issuer, credential.expirationDate,
    private_inputs>>

NoRequest == [credential_id |-> <<>>, issuanceDate |-> 0,
              proof_type |-> "", witness |-> <<>>]
NoProofReturn == [kind |-> "none", proof_id |-> <<>>]

\* circuit_lock: the task holding ZKPProver._circuit_lock, one lock for
\* every circuit (line 29).
\* The three tasks of a call and the last stage each one runs.
TaskKinds == {"circuit", "setup", "witness"}
LastStage(k) == IF k = "circuit" THEN "compile" ELSE k

\* A task is not created ("none"), created and not yet run ("new"), waiting
\* for _circuit_lock ("lock"), waiting for its backend command ("run"),
\* running between two suspensions ("held"), or ended ("done", "failed",
\* "cancelled").
TaskState(stage, phase) == [stage |-> stage, phase |-> phase]
NoTaskState == TaskState("", "none")
TaskPending(ts) == ts.phase \in {"new", "lock", "run"}

NoHolder == <<>>

\* A backend command in flight; orphan: no task waits for it any more.
Command(c, k, stage) ==
  [caller |-> c, task |-> k, stage |-> stage,
   circuit |-> genReq[c].proof_type, orphan |-> FALSE]

\* The part of the state a task changes while it runs.
Pipeline ==
  [task |-> genTask, lock |-> circuit_lock, backend |-> backend,
   calls |-> genCalls, retried |-> genRetried, shutdown |-> executor_shutdown]

ApplyPipeline(P) ==
  /\ genTask' = P.task
  /\ circuit_lock' = P.lock
  /\ backend' = P.backend
  /\ genCalls' = P.calls
  /\ genRetried' = P.retried
  /\ executor_shutdown' = P.shutdown

SetTask(P, c, k, ts) == [P EXCEPT !.task[c][k] = ts]

\* Stages that do not look into _circuit_cache, or into _setup_cache.
CompileNeverCached(stage, c) ==
  IF stage = "compile" THEN FALSE
  ELSE IF stage = "setup" THEN genReq[c].proof_type \in setup_cache
  ELSE genReq[c].witness \in witness_cache
SetupNeverCached(stage, c) ==
  IF stage = "compile" THEN genReq[c].proof_type \in circuit_cache
  ELSE IF stage = "setup" THEN FALSE
  ELSE genReq[c].witness \in witness_cache

\* The cache test that opens each stage (lines 119-122, 163-166, 209-210).
StageCached(stage, c) ==
  IF stage = "compile" THEN genReq[c].proof_type \in circuit_cache
  ELSE IF stage = "setup" THEN genReq[c].proof_type \in setup_cache
  ELSE genReq[c].witness \in witness_cache

\* Tasks queued on _circuit_lock; asyncio.Lock.acquire() returns at once
\* only when the lock is free and nobody is queued.
LockWaiters(P) ==
  {ck \in GenCallers \X TaskKinds : P.task[ck[1]][ck[2]].phase = "lock"}

\* loop.run_in_executor(self._executor, ... _run_zokrates_command ...).
\* Once cleanup() has shut the executor down (line 65) the submission
\* raises RuntimeError: no command runs and the task ends; a lock taken for
\* the stage is released on the way out.
StartBackend(P, c, k, stage) ==
  IF P.shutdown
  THEN SetTask(P, c, k, TaskState(stage, "failed"))
  ELSE [P EXCEPT !.task[c][k] = TaskState(stage, "run"),
                 !.backend = @ \cup {Command(c, k, stage)},
                 !.lock = IF stage = "witness" THEN @ ELSE <<c, k>>,
                 !.calls[c] = @ + 1,
                 !.retried[c] = @ \/ (\E f \in genFailed[c] : f[1] = stage)]

\* "async with self._circuit_lock" of compile (line 126) and setup (169).
EnterLocked(P, c, k, stage) ==
  IF P.lock = NoHolder /\ LockWaiters(P) = {}
  THEN StartBackend(P, c, k, stage)
  ELSE SetTask(P, c, k, TaskState(stage, "lock"))

\* _compute_witness from line 204 on: no lock is taken.
EnterWitness(P, c, k) ==
  IF StageCached("witness", c)
  THEN SetTask(P, c, k, TaskState("witness", "done"))
  ELSE StartBackend(P, c, k, "witness")

AfterSetup(P, c, k) ==
  IF LastStage(k) = "setup"
  THEN SetTask(P, c, k, TaskState("setup", "done"))
  ELSE EnterWitness(P, c, k)

\* _setup_circuit from line 163 on.
EnterSetup(P, c, k) ==
  IF StageCached("setup", c) THEN AfterSetup(P, c, k)
  ELSE EnterLocked(P, c, k, "setup")

AfterCompile(P, c, k) ==
  IF LastStage(k) = "compile"
  THEN SetTask(P, c, k, TaskState("compile", "done"))
  ELSE EnterSetup(P, c, k)

\* A _setup_circuit that does not compile first.
EnterWithoutCompile(P, c, k) == AfterCompile(P, c, k)

\* _compile_circuit from line 112 on.
EnterCompile(P, c, k) ==
  IF genReq[c].proof_type \notin CircuitSources
  THEN SetTask(P, c, k, TaskState("compile", "failed"))
  ELSE IF StageCached("compile", c) THEN AfterCompile(P, c, k)
  ELSE EnterLocked(P, c, k, "compile")

AfterStage(P, c, k, stage) ==
  IF stage = "compile" THEN AfterCompile(P, c, k)
  ELSE IF stage = "setup" THEN AfterSetup(P, c, k)
  ELSE SetTask(P, c, k, TaskState("witness", "done"))

\* task.cancel() on every task of _cleanup_tasks that is not done (cleanup,
\* lines 54-63, and the cancellation of the gather by wait_for): the set
\* holds the tasks of every call that is gathering.  A cancelled task leaves
\* its "async with", which releases the lock; its command runs on.
\* cleanup() ends by shutting the executor down (lines 64-65).
CancelPending(P) ==
  [P EXCEPT
     !.task = [c \in GenCallers |-> [k \in TaskKinds |->
                 IF TaskPending(P.task[c][k])
                 THEN TaskState(P.task[c][k].stage, "cancelled")
                 ELSE P.task[c][k]]],
     !.lock = NoHolder,
     !.shutdown = TRUE,
     !.backend = {IF cmd.stage # "prove" THEN [cmd EXCEPT !.orphan = TRUE]
                  ELSE cmd : cmd \in P.backend}]

\* generate_proof, lines 286-287: "if proof_id in self.proof_cache".
ProofNeverCached(proof_id) == FALSE

ProofCached(proof_id) == proof_id \in DOMAIN proof_cache

\* Calls with the same (credentialId, proofType, issuanceDate) as caller c
\* that had returned a proof when c's call began.
EarlierSuccesses(req) ==
  {d \in GenCallers :
     /\ genPc[d] = "done" /\ genRet[d].kind = "proof"
     /\ genReq[d].credential_id = req.credential_id
     /\ genReq[d].issuanceDate = req.issuanceDate
     /\ genReq[d].proof_type = req.proof_type}

taskVars ==
  <<genTask, circuit_lock, backend, genCalls, genRetried, executor_shutdown>>

\* generate_proof, lines 283-304: derive the proof id; answer from
\* proof_cache when it is there, otherwise create the three tasks.
GenStart(c, credential, proof_type, private_inputs) ==
  LET pid == GenerateProofId(credential.id, proof_type)
      req == [credential_id |-> credential.id,
              issuanceDate |-> credential.issuanceDate,
              proof_type |-> proof_type,
              witness |-> WitnessCacheKey(proof_type, credential, private_inputs)]
  IN
  /\ genPc[c] = "idle"
  /\ genReq' = [genReq EXCEPT ![c] = req]
  /\ genPrior' = [genPrior EXCEPT ![c] = EarlierSuccesses(req)]
  /\ IF ProofCached(pid)
     THEN /\ genPc' = [genPc EXCEPT ![c] = "done"]
          /\ genRet' = [genRet EXCEPT ![c] = [kind |-> "proof", proof_id |-> pid]]
          /\ UNCHANGED genTask
     ELSE /\ genPc' = [genPc EXCEPT ![c] = "gather"]
          /\ genTask' = [genTask EXCEPT ![c] =
                            [k \in TaskKinds |-> TaskState("compile", "new")]]
          /\ UNCHANGED genRet
  /\ UNCHANGED <<circuit_cache, setup_cache, witness_cache, proof_cache,
                 proof_file, witness_file, circuit_lock, backend, genCalls, genRetried,
                 genFailed, executor_shutdown>>

\* The three tasks run for the first time, in the order of their creation,
\* each up to its first suspension.
GenTasksBegin(c) ==
  /\ genPc[c] = "gather"
  /\ \A k \in TaskKinds : genTask[c][k].phase = "new"
  /\ ApplyPipeline(
       EnterCompile(EnterCompile(EnterCompile(Pipeline, c, "circuit"),
                                 c, "setup"), c, "witness"))
  /\ UNCHANGED <<circuit_cache, setup_cache, witness_cache, proof_cache,
                 proof_file, witness_file, genPc, genReq, genPrior, genRet, genFailed>>

\* A task queued on _circuit_lock gets it; it tests the cache again (lines
\* 127-128, 170-171) and either goes on or starts the command.
TaskAcquire(c, k) ==
  LET stage == genTask[c][k].stage
      P == SetTask(Pipeline, c, k, TaskState(stage, "held"))
  IN
  /\ genTask[c][k].phase = "lock"
  /\ circuit_lock = NoHolder
  /\ IF StageCached(stage, c)
     THEN ApplyPipeline(AfterStage(P, c, k, stage))
     ELSE ApplyPipeline(StartBackend(P, c, k, stage))
  /\ UNCHANGED <<circuit_cache, setup_cache, witness_cache, proof_cache,
                 proof_file, witness_file, genPc, genReq, genPrior, genRet, genFailed>>

\* The command a task waits for ends.  On exit 0 the stage's cache is
\* filled, the lock released and the task goes on.  On a non-zero exit, or
\* when subprocess.run times out, RuntimeError ends the task.  "timeout" on
\* compile and setup is the wait_for of lines 134-140 and 177-183 expiring:
\* the task ends and the command runs on.
\* compute-witness -o <circuit>.wtns (lines 202, 259-267): the one witness
\* file of the circuit holds what the last command to exit with 0 wrote.
WriteWitness(req) == [witness_file EXCEPT ![req.proof_type] = req.witness]

BackendEnds(c, k, outcome) ==
  LET stage == genTask[c][k].stage
      cmd == Command(c, k, stage)
      locked == stage # "witness"
      P0 == [Pipeline EXCEPT
               !.lock = IF locked THEN NoHolder ELSE @,
               !.backend = IF outcome = "timeout" /\ locked
                           THEN (@ \ {cmd}) \cup {[cmd EXCEPT !.orphan = TRUE]}
                           ELSE @ \ {cmd}]
  IN
  /\ genTask[c][k].phase = "run"
  /\ cmd \in backend
  /\ IF outcome = "ok"
     THEN /\ ApplyPipeline(AfterStage(SetTask(P0, c, k, TaskState(stage, "held")),
                                      c, k, stage))
          /\ circuit_cache' = IF stage = "compile"
                              THEN circuit_cache \cup {genReq[c].proof_type}
                              ELSE circuit_cache
          /\ setup_cache' = IF stage = "setup"
                            THEN setup_cache \cup {genReq[c].proof_type}
                            ELSE setup_cache
          /\ witness_cache' = IF stage = "witness"
                              THEN witness_cache \cup {genReq[c].witness}
                              ELSE witness_cache
          /\ witness_file' = IF stage = "witness"
                             THEN WriteWitness(genReq[c])
                             ELSE witness_file
          /\ UNCHANGED genFailed
     ELSE /\ ApplyPipeline(SetTask(P0, c, k, TaskState(stage, "failed")))
          /\ genFailed' = [genFailed EXCEPT ![c] = @ \cup {<<stage, outcome>>}]
          /\ UNCHANGED <<circuit_cache, setup_cache, witness_cache, witness_file>>
  /\ UNCHANGED <<proof_cache, proof_file, genPc, genReq, genPrior, genRet>>

\* A command nobody waits for ends; an abandoned generate-proof that exits
\* with 0 has written circuits/proof.json.
OrphanEnds(cmd, outcome) ==
  /\ cmd \in backend
  /\ cmd.orphan
  /\ backend' = backend \ {cmd}
  /\ proof_file' = IF cmd.stage = "prove" /\ outcome = "ok"
                   THEN witness_file[cmd.circuit] ELSE proof_file
  /\ witness_file' = IF cmd.stage = "witness" /\ outcome = "ok"
                     THEN WriteWitness(genReq[cmd.caller]) ELSE witness_file
  /\ UNCHANGED <<circuit_cache, setup_cache, witness_cache, proof_cache,
                 genTask, circuit_lock, genCalls, genRetried, genFailed,
                 genPc, genReq, genPrior, genRet, executor_shutdown>>

\* The call ends with "return None" (lines 371-373).
GenFail(c) ==
  /\ genPc' = [genPc EXCEPT ![c] = "done"]
  /\ genRet' = [genRet EXCEPT ![c] = [kind |-> "failed", proof_id |-> <<>>]]

\* Lines 307-313 and 326-343: the gather has all three results; the
\* generate-proof command is started.
GenGatherDone(c) ==
  /\ genPc[c] = "gather"
  /\ \A k \in TaskKinds : genTask[c][k].phase = "done"
  /\ IF executor_shutdown
     THEN /\ GenFail(c)
          /\ UNCHANGED <<backend, genCalls>>
     ELSE /\ genPc' = [genPc EXCEPT ![c] = "prove"]
          /\ backend' = backend \cup {Command(c, "prove", "prove")}
          /\ genCalls' = [genCalls EXCEPT ![c] = @ + 1]
          /\ UNCHANGED genRet
  /\ UNCHANGED <<circuit_cache, setup_cache, witness_cache, proof_cache,
                 proof_file, witness_file, genTask, circuit_lock, genRetried, genFailed,
                 genReq, genPrior, executor_shutdown>>

\* Lines 319-322: a task raised; cleanup() cancels what is pending and the
\* RuntimeError is turned into "return None" at 371-373.
GenGatherFailed(c) ==
  /\ genPc[c] = "gather"
  /\ \E k \in TaskKinds : genTask[c][k].phase = "failed"
  /\ ApplyPipeline(CancelPending(Pipeline))
  /\ GenFail(c)
  /\ UNCHANGED <<circuit_cache, setup_cache, witness_cache, proof_cache,
                 proof_file, witness_file, genFailed, genReq, genPrior>>

\* A task of this call was cancelled by the cleanup() of another call: the
\* gather raises CancelledError, which is no Exception and passes through
\* both except clauses to the caller.
GenGatherCancelled(c) ==
  /\ genPc[c] = "gather"
  /\ \A k \in TaskKinds : genTask[c][k].phase # "failed"
  /\ \E k \in TaskKinds : genTask[c][k].phase = "cancelled"
  /\ genPc' = [genPc EXCEPT ![c] = "done"]
  /\ genRet' = [genRet EXCEPT ![c] = [kind |-> "cancelled", proof_id |-> <<>>]]
  /\ UNCHANGED <<circuit_cache, setup_cache, witness_cache, proof_cache,
                 proof_file, witness_file, genFailed, genReq, genPrior, taskVars>>

\* Lines 307-318: the wait_for around the gather expires with a task still
\* pending; the tasks are cancelled, cleanup() runs, and None is returned.
GenGatherTimeout(c) ==
  /\ genPc[c] = "gather"
  /\ \A k \in TaskKinds : genTask[c][k].phase \notin {"new", "failed", "cancelled"}
  /\ \E k \in TaskKinds : TaskPending(genTask[c][k])
  /\ ApplyPipeline(CancelPending(Pipeline))
  /\ GenFail(c)
  /\ genFailed' = [genFailed EXCEPT ![c] = @ \cup {<<"gather", "timeout">>}]
  /\ UNCHANGED <<circuit_cache, setup_cache, witness_cache, proof_cache,
                 proof_file, witness_file, genReq, genPrior>>

\* generate_proof, lines 326-343 and 366-373: the generate-proof command
\* ends; on exit 0 it has written circuits/proof.json.  "timeout" is the
\* wait_for of line 330 expiring with the command still running.
GenProve(c, outcome) ==
  LET cmd == Command(c, "prove", "prove") IN
  /\ genPc[c] = "prove"
  /\ cmd \in backend
  /\ backend' = IF outcome = "timeout"
                THEN (backend \ {cmd}) \cup {[cmd EXCEPT !.orphan = TRUE]}
                ELSE backend \ {cmd}
  /\ IF outcome = "ok"
     THEN /\ proof_file' = witness_file[genReq[c].proof_type]
          /\ genPc' = [genPc EXCEPT ![c] = "store"]
          /\ UNCHANGED <<genRet, genFailed>>
     ELSE /\ GenFail(c)
          /\ genFailed' = [genFailed EXCEPT ![c] = @ \cup {<<"prove", outcome>>}]
          /\ UNCHANGED proof_file
  /\ UNCHANGED <<witness_file, circuit_cache, setup_cache, witness_cache, proof_cache, genReq,
                 genPrior, genTask, circuit_lock, genCalls, genRetried,
                 executor_shutdown>>

\* generate_proof, lines 345-365: read proof.json, add the metadata, cache
\* the proof under its id and return it.
GenStore(c) ==
  LET pid == GenerateProofId(genReq[c].credential_id, genReq[c].proof_type)
      proof == [blob |-> proof_file,
                metadata |-> [credential_id |-> genReq[c].credential_id,
                              proof_type |-> genReq[c].proof_type]]
  IN
  /\ genPc[c] = "store"
  /\ proof_cache' = (pid :> proof) @@ proof_cache
  /\ genPc' = [genPc EXCEPT ![c] = "done"]
  /\ genRet' = [genRet EXCEPT ![c] = [kind |-> "proof", proof_id |-> pid]]
  /\ UNCHANGED <<circuit_cache, setup_cache, witness_cache, proof_file, witness_file, genReq,
                 genPrior, genFailed, taskVars>>


\* verify_proof(proof, public_inputs).  The proof handed in is None, a value
\* of proof_cache (the backend's proof with "metadata", as the gateway
\* passes it, without "proof_id"), or the dict generate_proof returned
\* ("proof_id", "proof_type", "credential_id", "proof").
VerifyForms == {"none", "stored", "returned"}
PublicInputs ==
  {[required_role |-> "operator", required_clearance |-> "high"],
   [required_role |-> "observer", required_clearance |-> "low"]}
ProofArgument(form, proof_id) == [form |-> form, proof_id |-> proof_id]
NoVerify ==
  [kind |-> "none", proof |-> ProofArgument("none", <<>>),
   public_inputs |-> [required_role |-> "", required_clearance |-> ""],
   result |-> FALSE, raised |-> "none", commands |-> 0, exit |-> "none",
   cached |-> FALSE, again |-> FALSE]

\* Line 381: proof.get("metadata", {}).get("proof_type", "access_control");
\* only a value of proof_cache has "metadata" at its top level.
VerifyCircuitName(proof) ==
  IF proof.form = "stored" THEN proof.proof_id[2] ELSE "access_control"

\* Line 384: f"{circuit_name}:{proof['proof_id']}".
VerifierKey(proof) == <<VerifyCircuitName(proof), proof.proof_id>>

\* _ensure_circuit_ready, the definition of lines 471-489 (it replaces the
\* one of 435-448): "with self._circuit_lock" on an asyncio.Lock, which has
\* no __enter__, raises before anything is run.
EnsureCircuitReady(proof_type) == "TypeError"

\* What verify_proof returns when an exception reached its except clause.
ExceptReturnsTrue == TRUE
\* Lines 416-418: "except Exception: ... return False".
ExceptReturns == FALSE

\* verify_proof, lines 377-418: what it returns, the exception its except
\* clause swallowed, the backend commands it ran, how the verify command
\* ended, and whether the verifier key was in _verifier_cache.  "exit" is
\* how the verify command of lines 399-406 ends if it is reached.
VerifyOutcome(proof, exit) ==
  IF proof.form = "none"
  THEN [result |-> FALSE, raised |-> "none", commands |-> 0, exit |-> "none",
        cached |-> FALSE]
  ELSE IF proof.form = "stored"
  THEN [result |-> ExceptReturns, raised |-> "KeyError", commands |-> 0,
        exit |-> "none", cached |-> FALSE]
  ELSE IF VerifierKey(proof) \in verifier_cache
  THEN [result |-> TRUE, raised |-> "none", commands |-> 0, exit |-> "none",
        cached |-> TRUE]
  ELSE IF EnsureCircuitReady(VerifyCircuitName(proof)) # "none"
  THEN [result |-> ExceptReturns,
        raised |-> EnsureCircuitReady(VerifyCircuitName(proof)),
        commands |-> 0, exit |-> "none", cached |-> FALSE]
  ELSE IF exit = "timeout"
  THEN [result |-> ExceptReturns, raised |-> "TimeoutExpired", commands |-> 1,
        exit |-> exit, cached |-> FALSE]
  ELSE [result |-> exit = "ok", raised |-> "none", commands |-> 1,
        exit |-> exit, cached |-> FALSE]

\* public_inputs is a parameter that verify_proof does not read.
VerifyProof(proof, public_inputs, exit) ==
  LET out == VerifyOutcome(proof, exit) IN
  /\ verLast' = [kind |-> "returned", proof |-> proof,
                 public_inputs |-> public_inputs, result |-> out.result,
                 raised |-> out.raised, commands |-> out.commands,
                 exit |-> out.exit, cached |-> out.cached,
                 again |-> /\ verLast.kind = "returned"
                           /\ verLast.proof = proof
                           /\ ~verLast.result]
  /\ verifier_cache' = IF out.exit = "ok"
                       THEN verifier_cache \cup {VerifierKey(proof)}
                       ELSE verifier_cache


(***************************************************************************)
(* Simulation gateway (simulation_gateway.py).  handle_access_request      *)
(* awaits nothing, so a call is one step.  The gateway owns a DIDManager,  *)
(* a VCManager and a ZKPProver (lines 25-27): the state above.             *)
(***************************************************************************)
Resources == {"tactical_simulation", "strategic_simulation"}
Actions == {"execute"}

\* access_policies.get(resource_id): None before add_access_policy.
PolicyAbsent == [kind |-> "absent", required_role |-> "", required_clearance |-> ""]
\* {"public_inputs": {"required_role": r, "required_clearance": c}}
PolicyWithInputs(r, c) ==
  [kind |-> "inputs", required_role |-> r, required_clearance |-> c]
\* {}: a registered policy that is falsy.
PolicyEmpty == [kind |-> "empty", required_role |-> "", required_clearance |-> ""]
\* A non-empty policy without "public_inputs".
PolicyNoInputs ==
  [kind |-> "no_inputs", required_role |-> "", required_clearance |-> ""]
AddablePolicies == {PolicyWithInputs("operator", "high"), PolicyEmpty, PolicyNoInputs}

\* "if not policy" (line 67)
PolicyFalsy(policy) == policy.kind \in {"absent", "empty"}

NoCredential ==
  [id |-> <<>>, issuer |-> "", subject |-> "", issuanceDate |-> 0,
   expirationDate |-> 0, attributes |-> [role |-> "", clearance_level |-> ""],
   jwt |-> SignJwt("", <<>>)]

\* The proof id of no generated proof.
FabricatedProofId == GenerateProofId(UnknownCredentialId, "access_control")
RequestProofIds == DOMAIN proof_cache \cup {FabricatedProofId}
\* Credentials a request can carry: issued by the gateway's own VCManager or
\* by another VCManager instance (as test_framework.py does).
ForeignCredentials == {c \in ProofCredentials : c.issuanceDate = 0}
RequestCredentials ==
  {issued_vcs[i] : i \in DOMAIN issued_vcs} \cup ForeignCredentials

\* AccessRequest(proof_id, credential, resource_id, action); proof_id is
\* None or "" ("none": the handler only tests its truth) or a string,
\* credential is None, {} or a dict.
AccessRequest(proof_kind, proof_id, cred_kind, credential, resource_id, action) ==
  [proof_kind |-> proof_kind, proof_id |-> proof_id, cred_kind |-> cred_kind,
   credential |-> credential, resource_id |-> resource_id, action |-> action]

AccessRequests ==
  LET proofs == {<<"none", <<>>>>}
                   \cup {<<"id", p>> : p \in RequestProofIds}
      creds == {<<"none", NoCredential>>, <<"empty", NoCredential>>}
                   \cup {<<"cred", c>> : c \in RequestCredentials}
  IN {AccessRequest(p[1], p[2], c[1], c[2], r, a) :
        p \in proofs, c \in creds, r \in Resources, a \in Actions}

\* "if request.proof_id" / "elif request.credential"
ProofBased(request) == request.proof_kind = "id"
CredentialBased(request) == ~ProofBased(request) /\ request.cred_kind = "cred"

\* _get_cache_key; request.credential['id'] raises for None and for {}.
GetCacheKeyRaises(request) ==
  ~ProofBased(request) /\ request.cred_kind # "cred"
GetCacheKey(request) ==
  IF ProofBased(request)
  THEN <<"proof", request.proof_id, request.resource_id, request.action>>
  ELSE <<"cred", request.credential.id, request.resource_id, request.action>>

\* What a call comes to: a response or an exception, and whether the
\* decision was stored in access_cache and appended to access_logs.
Respond(granted, reason, is_valid, stored) ==
  [kind |-> "response", granted |-> granted, reason |-> reason,
   is_valid |-> is_valid, stored |-> stored, backend |-> 0]
Raise(exception, is_valid, stored) ==
  [kind |-> "raise", granted |-> FALSE, reason |-> exception,
   is_valid |-> is_valid, stored |-> stored, backend |-> 0]

\* AccessResponse(granted=is_valid, ...): pydantic takes a bool and rejects
\* a coroutine object with a ValidationError.
Response(is_valid, reason, stored) ==
  IF is_valid = "coroutine" THEN Raise("ValidationError", is_valid, stored)
  ELSE Respond(is_valid = "True", reason, is_valid, stored)

\* Lines 88-111.  verify_proof is an async function called without await:
\* is_valid is the coroutine object, which is truthy, and the backend never
\* runs.
UnknownProofAccepted(request) == FALSE

\* "proof = self.zkp_prover.proof_cache.get(request.proof_id); if not proof"
UnknownProofDenied(request) == request.proof_id \notin DOMAIN proof_cache

ProofDecision(request, policy) ==
  IF UnknownProofDenied(request)
  THEN Respond(FALSE, "Invalid proof ID", "False", FALSE)
  ELSE IF policy.kind # "inputs"
  THEN Raise("KeyError", "False", FALSE)
  ELSE Response("coroutine", "Access granted", TRUE)

\* The attribute comparison of lines 136-143.
AttributesMatch(credential, policy) ==
  /\ credential.attributes.role = policy.required_role
  /\ credential.attributes.clearance_level = policy.required_clearance

\* The credential branch with the registry and the credential checks left
\* out of the decision: grant on matching attributes of an unrevoked credential.
CredentialDecisionUnverified(request, policy) ==
  IF ~IsRevoked(request.credential) /\ AttributesMatch(request.credential, policy)
  THEN Response("True", "Access granted", TRUE)
  ELSE Response("False", "Credential attributes do not match policy", TRUE)

\* The credential branch with the attribute comparison left out: any
\* unrevoked credential is granted.
CredentialDecisionAttributesIgnored(request, policy) ==
  IF IsRevoked(request.credential)
  THEN Response("False", "Credential attributes do not match policy", TRUE)
  ELSE Response("True", "Access granted", TRUE)

\* Lines 113-147.  resolve_did is an async function called without await:
\* issuer_doc is a coroutine object, "not issuer_doc" is false, and
\* issuer_doc["verificationMethod"] raises TypeError, which the except
\* clause turns into a denial.
CredentialDecision(request, policy) ==
  Response("False",
           "Credential verification failed: 'coroutine' object is not subscriptable",
           TRUE)

PolicyNeverMissing(request) == FALSE

\* The policy lookup of lines 65-72.
PolicyMissing(request) == PolicyFalsy(access_policies[request.resource_id])

\* handle_access_request, lines 55-169.
AccessOutcome(request) ==
  LET policy == access_policies[request.resource_id] IN
  IF PolicyMissing(request)
  THEN Respond(FALSE, "No access policy found for resource", "False", FALSE)
  ELSE IF GetCacheKeyRaises(request)
  THEN Raise(IF request.cred_kind = "none" THEN "TypeError" ELSE "KeyError",
             "False", FALSE)
  ELSE IF GetCacheKey(request) \in DOMAIN access_cache
  THEN Response(access_cache[GetCacheKey(request)].is_valid,
                access_cache[GetCacheKey(request)].reason, FALSE)
  ELSE IF ProofBased(request)
  THEN ProofDecision(request, policy)
  ELSE CredentialDecision(request, policy)

LogEntry(request, out) ==
  [timestamp |-> now,
   proof_id |-> request.proof_id,
   credential_id |-> request.credential.id,
   resource_id |-> request.resource_id,
   action |-> request.action,
   granted |-> out.is_valid,
   reason |-> IF out.is_valid = "coroutine" THEN "Access granted" ELSE out.reason]

\* The issuer's document is in the gateway's registry.
IssuerKnown(credential) == credential.issuer \in DOMAIN did_documents

NoAccess ==
  [kind |-> "none", granted |-> FALSE, reason |-> "", is_valid |-> "False",
   stored |-> FALSE, backend |-> 0, request |-> AccessRequest("none", <<>>, "none",
   NoCredential, "", ""), policy |-> PolicyAbsent, hit |-> FALSE,
   cached |-> FALSE,
   proof_known |-> FALSE, revoked |-> FALSE, expired |-> FALSE,
   issuer_known |-> FALSE, backend_verify |-> "fail", age |-> 0]

\* The cache key of the request a log entry records.  A decision is logged
\* (lines 153-162) in the call that stores it (line 150), so the entry's
\* timestamp is the time the cached decision was made.
LogCacheKey(entry) ==
  IF entry.proof_id # <<>>
  THEN <<"proof", entry.proof_id, entry.resource_id, entry.action>>
  ELSE <<"cred", entry.credential_id, entry.resource_id, entry.action>>
InsertedAt(key) ==
  LET i == CHOOSE i \in DOMAIN access_logs : LogCacheKey(access_logs[i]) = key
  IN access_logs[i].timestamp

\* A log that keeps the latest entry only.
KeepLatest(logs, entry) == <<entry>>
\* Line 162: self.access_logs.append(log_entry).
AppendLog(logs, entry) == Append(logs, entry)

\* backend_verify: what the backend's verify command would answer for the
\* proof, were it run.
HandleAccessRequest(request, backend_verify) ==
  LET out == AccessOutcome(request)
      key == GetCacheKey(request)
  IN
  /\ gwCalls < MaxAccessCalls
  /\ gwCalls' = gwCalls + 1
  /\ access_cache' =
        IF out.stored
        THEN (key :> [is_valid |-> out.is_valid,
                      reason |-> LogEntry(request, out).reason]) @@ access_cache
        ELSE access_cache
  /\ access_logs' =
        IF out.stored THEN AppendLog(access_logs, LogEntry(request, out))
        ELSE access_logs
  /\ gwLast' =
        [kind |-> out.kind, granted |-> out.granted, reason |-> out.reason,
         is_valid |-> out.is_valid, stored |-> out.stored,
         backend |-> out.backend, request |-> request,
         policy |-> access_policies[request.resource_id],
         hit |-> (~PolicyMissing(request) /\ ~GetCacheKeyRaises(request)
                    /\ key \in DOMAIN access_cache),
         cached |-> (~GetCacheKeyRaises(request)
                       /\ key \in DOMAIN access_cache),
         proof_known |-> (request.proof_id \in DOMAIN proof_cache),
         revoked |-> IsRevoked(request.credential),
         expired |-> IsExpired(request.credential),
         issuer_known |-> IssuerKnown(request.credential),
         backend_verify |-> backend_verify,
         age |-> IF ~GetCacheKeyRaises(request) /\ key \in DOMAIN access_cache
                 THEN now - InsertedAt(key) ELSE 0]
  /\ UNCHANGED <<access_policies, logs_read>>

\* add_access_policy, lines 175-177.
AddAccessPolicy(resource_id, policy) ==
  /\ access_policies' = [access_policies EXCEPT ![resource_id] = policy]
  /\ UNCHANGED <<access_cache, access_logs, gwLast, gwCalls, logs_read>>

\* get_access_logs, lines 171-173: returns the list.
NotRead == [read |-> FALSE, logs |-> <<>>]
GetAccessLogs ==
  /\ logs_read' = [read |-> TRUE, logs |-> access_logs]
  /\ UNCHANGED <<access_policies, access_cache, access_logs, gwLast, gwCalls>>

vars == <<clockVars, vcVars, didVars, zkpVars, gwVars, verVars>>

Init ==
  /\ now = 0
  /\ ticks = 0
  /\ issued_vcs = <<>>
  /\ revoked_vcs = {}
  /\ verification_cache = <<>>
  /\ vcLast = NoCall
  /\ storage_file \in StorageChoices
  /\ did_documents = <<>>
  /\ did_cache = <<>>
  /\ did_lock = NoTask
  /\ didPc = [t \in DidTasks |-> IF t = LoaderTask THEN "load_start" ELSE "idle"]
  /\ didOp = [t \in DidTasks |-> IF t = LoaderTask THEN "load" ELSE "none"]
  /\ didArg = [t \in DidTasks |-> ""]
  /\ didBuf = [t \in DidTasks |-> <<>>]
  /\ didRet = [t \in DidTasks |-> NoReturn]
  /\ circuit_cache = {}
  /\ setup_cache = {}
  /\ witness_cache = {}
  /\ proof_cache = <<>>
  /\ proof_file = <<>>
  /\ witness_file = [c \in ProofTypes \cup CircuitSources |-> <<>>]
  /\ genPc = [c \in GenCallers |-> "idle"]
  /\ genReq = [c \in GenCallers |-> NoRequest]
  /\ genPrior = [c \in GenCallers |-> {}]
  /\ genCalls = [c \in GenCallers |-> 0]
  /\ genRet = [c \in GenCallers |-> NoProofReturn]
  /\ genTask = [c \in GenCallers |-> [k \in TaskKinds |-> NoTaskState]]
  /\ genFailed = [c \in GenCallers |-> {}]
  /\ genRetried = [c \in GenCallers |-> FALSE]
  /\ circuit_lock = NoHolder
  /\ backend = {}
  /\ executor_shutdown = FALSE
  /\ verifier_cache = {}
  /\ verLast = NoVerify
  /\ access_policies = [r \in Resources |-> PolicyAbsent]
  /\ access_cache = <<>>
  /\ access_logs = <<>>
  /\ gwLast = NoAccess
  /\ gwCalls = 0
  /\ logs_read = NotRead

VCIssue ==
  \E s \in SubjectDIDs, i \in IssuerDIDs, ty \in CredentialTypes,
     a \in AttributeSets, k \in KeyIds, v \in ValidityDays :
       IssueCredential(s, i, ty, a, k, v)

VCVerify ==
  \E c \in PresentedCredentials, k \in KeyIds : VerifyCredential(c, k)

VCRevoke ==
  \E i \in DOMAIN issued_vcs \cup {UnknownCredentialId} : RevokeCredential(i)

VCTick == \E d \in TickSteps : Tick(d)

NextVC ==
  \/ VCIssue /\ UNCHANGED <<clockVars, didVars, zkpVars, gwVars, verVars>>
  \/ VCVerify /\ UNCHANGED <<clockVars, didVars, zkpVars, gwVars, verVars>>
  \/ VCRevoke /\ UNCHANGED <<clockVars, didVars, zkpVars, gwVars, verVars>>
  \/ VCTick /\ UNCHANGED <<vcVars, didVars, zkpVars, gwVars, verVars>>

InitVC == Init /\ storage_file = NoStorageFile

SpecVC == InitVC /\ [][NextVC]_vars

DIDLoadRead == DidLoadRead(LoaderTask)
DIDLoadAssign == DidLoadAssign(LoaderTask)
DIDCreateStart ==
  \E t \in DidCallers, p \in ParticipantTypes, k \in KeyIds : DidCreateStart(t, p, k)
DIDCreateStore ==
  \E t \in DidCallers, o \in MakedirsOutcomes : DidCreateStore(t, o)
DIDResolveStart == \E t \in DidCallers, d \in DIDs : DidResolveStart(t, d)
DIDResolveRun == \E t \in DidCallers : DidResolveRun(t)
DIDRevokeStart == \E t \in DidCallers, d \in DIDs : DidRevokeStart(t, d)
DIDRevokeRun == \E t \in DidCallers : DidRevokeRun(t)
DIDRevokeCache ==
  \E t \in DidCallers, o \in MakedirsOutcomes : DidRevokeCache(t, o)

NextDID ==
  \/ DIDLoadRead /\ UNCHANGED <<clockVars, vcVars, zkpVars, gwVars, verVars>>
  \/ DIDLoadAssign /\ UNCHANGED <<clockVars, vcVars, zkpVars, gwVars, verVars>>
  \/ DIDCreateStart /\ UNCHANGED <<clockVars, vcVars, zkpVars, gwVars, verVars>>
  \/ DIDCreateStore /\ UNCHANGED <<clockVars, vcVars, zkpVars, gwVars, verVars>>
  \/ DIDResolveStart /\ UNCHANGED <<clockVars, vcVars, zkpVars, gwVars, verVars>>
  \/ DIDResolveRun /\ UNCHANGED <<clockVars, vcVars, zkpVars, gwVars, verVars>>
  \/ DIDRevokeStart /\ UNCHANGED <<clockVars, vcVars, zkpVars, gwVars, verVars>>
  \/ DIDRevokeRun /\ UNCHANGED <<clockVars, vcVars, zkpVars, gwVars, verVars>>
  \/ DIDRevokeCache /\ UNCHANGED <<clockVars, vcVars, zkpVars, gwVars, verVars>>
  \/ VCTick /\ UNCHANGED <<vcVars, didVars, zkpVars, gwVars, verVars>>

SpecDID == Init /\ [][NextDID]_vars

\* The event loop runs a task that is ready to run.
SpecDIDFair == SpecDID /\ WF_vars(NextDID)

\* Callers are interchangeable: they make their calls in the order of
\* their numbers.
ZKPStart ==
  \E c \in ConcurrentCallers, cr \in ProofCredentials, pt \in ProofTypes,
     pi \in PrivateInputs :
       /\ \A d \in GenCallers : d < c => genPc[d] # "idle"
       /\ GenStart(c, cr, pt, pi)
ZKPTasksBegin == \E c \in GenCallers : GenTasksBegin(c)
ZKPTaskAcquire == \E c \in GenCallers, k \in TaskKinds : TaskAcquire(c, k)
ZKPBackendEnds ==
  \E c \in GenCallers, k \in TaskKinds, o \in {"ok", "fail"} :
     BackendEnds(c, k, o)
ZKPOrphanEnds == \E cmd \in backend, o \in {"ok", "fail"} : OrphanEnds(cmd, o)
ZKPGatherDone == \E c \in GenCallers : GenGatherDone(c)
ZKPGatherFailed == \E c \in GenCallers : GenGatherFailed(c)
ZKPGatherCancelled == \E c \in GenCallers : GenGatherCancelled(c)
ZKPGatherTimeout == \E c \in GenCallers : GenGatherTimeout(c)
ZKPProve == \E c \in GenCallers, o \in BackendOutcomes : GenProve(c, o)
ZKPStore == \E c \in GenCallers : GenStore(c)
ZKPVerify ==
  \E f \in VerifyForms, i \in DOMAIN proof_cache \cup {<<>>},
     pi \in PublicInputs :
       /\ (f = "none") = (i = <<>>)
       /\ \E exit \in BackendOutcomes : VerifyProof(ProofArgument(f, i), pi, exit)

NextZKP ==
  \/ ZKPStart /\ UNCHANGED <<clockVars, vcVars, didVars, gwVars, verVars>>
  \/ ZKPTasksBegin /\ UNCHANGED <<clockVars, vcVars, didVars, gwVars, verVars>>
  \/ ZKPTaskAcquire /\ UNCHANGED <<clockVars, vcVars, didVars, gwVars, verVars>>
  \/ ZKPBackendEnds /\ UNCHANGED <<clockVars, vcVars, didVars, gwVars, verVars>>
  \/ ZKPOrphanEnds /\ UNCHANGED <<clockVars, vcVars, didVars, gwVars, verVars>>
  \/ ZKPGatherDone /\ UNCHANGED <<clockVars, vcVars, didVars, gwVars, verVars>>
  \/ ZKPGatherFailed /\ UNCHANGED <<clockVars, vcVars, didVars, gwVars, verVars>>
  \/ ZKPGatherCancelled /\ UNCHANGED <<clockVars, vcVars, didVars, gwVars, verVars>>
  \/ ZKPGatherTimeout /\ UNCHANGED <<clockVars, vcVars, didVars, gwVars, verVars>>
  \/ ZKPProve /\ UNCHANGED <<clockVars, vcVars, didVars, gwVars, verVars>>
  \/ ZKPStore /\ UNCHANGED <<clockVars, vcVars, didVars, gwVars, verVars>>

SpecZKP == InitVC /\ [][NextZKP]_vars

\* Proof generation for two circuits: the calls draw their proof type from
\* the circuits that exist, and the backend commands succeed.
CircuitsStart ==
  \E c \in ConcurrentCallers, cr \in ProofCredentials, pt \in CircuitSources,
     pi \in PrivateInputs :
       /\ \A d \in GenCallers : d < c => genPc[d] # "idle"
       /\ GenStart(c, cr, pt, pi)
CircuitsBackendEnds ==
  \E c \in GenCallers, k \in TaskKinds : BackendEnds(c, k, "ok")
CircuitsProve == \E c \in GenCallers : GenProve(c, "ok")

NextCircuits ==
  \/ CircuitsStart /\ UNCHANGED <<clockVars, vcVars, didVars, gwVars, verVars>>
  \/ ZKPTasksBegin /\ UNCHANGED <<clockVars, vcVars, didVars, gwVars, verVars>>
  \/ ZKPTaskAcquire /\ UNCHANGED <<clockVars, vcVars, didVars, gwVars, verVars>>
  \/ CircuitsBackendEnds /\ UNCHANGED <<clockVars, vcVars, didVars, gwVars, verVars>>
  \/ ZKPGatherDone /\ UNCHANGED <<clockVars, vcVars, didVars, gwVars, verVars>>
  \/ CircuitsProve /\ UNCHANGED <<clockVars, vcVars, didVars, gwVars, verVars>>
  \/ ZKPStore /\ UNCHANGED <<clockVars, vcVars, didVars, gwVars, verVars>>
  \/ ZKPVerify /\ UNCHANGED <<clockVars, vcVars, didVars, gwVars, zkpVars>>

SpecCircuits == InitVC /\ [][NextCircuits]_vars

\* Calls made one after the other on one prover, each started when the one
\* before it has returned, with a generate-proof command that can fail.
WitnessStart ==
  \E c \in GenCallers, cr \in ProofCredentials, pi \in PrivateInputs :
     /\ \A d \in GenCallers : d < c => genPc[d] = "done"
     /\ GenStart(c, cr, "access_control", pi)
WitnessProve == \E c \in GenCallers, o \in {"ok", "fail"} : GenProve(c, o)

NextWitness ==
  \/ WitnessStart /\ UNCHANGED <<clockVars, vcVars, didVars, gwVars, verVars>>
  \/ ZKPTasksBegin /\ UNCHANGED <<clockVars, vcVars, didVars, gwVars, verVars>>
  \/ ZKPTaskAcquire /\ UNCHANGED <<clockVars, vcVars, didVars, gwVars, verVars>>
  \/ CircuitsBackendEnds /\ UNCHANGED <<clockVars, vcVars, didVars, gwVars, verVars>>
  \/ ZKPGatherDone /\ UNCHANGED <<clockVars, vcVars, didVars, gwVars, verVars>>
  \/ WitnessProve /\ UNCHANGED <<clockVars, vcVars, didVars, gwVars, verVars>>
  \/ ZKPStore /\ UNCHANGED <<clockVars, vcVars, didVars, gwVars, verVars>>

SpecWitness == InitVC /\ [][NextWitness]_vars

\* Policies are registered for the simulation of test_framework.py; the
\* other resource stays without one.
GWAddPolicy ==
  \E p \in AddablePolicies : AddAccessPolicy("tactical_simulation", p)
\* The backend's answer matters to proof-based requests only.
GWHandle ==
  \E q \in AccessRequests, o \in BackendOutcomes :
     /\ ProofBased(q) \/ o = "fail"
     /\ HandleAccessRequest(q, o)
\* gateway.vc_manager.issue_credential for the issuer D1.
GWIssue ==
  \E a \in AttributeSets :
     IssueCredential("D2", "D1", "simulation_access", a, "k1", 1)
\* gateway.zkp_prover.generate_proof, one call, with a backend whose
\* compile, setup and compute-witness commands succeed.
GWRevoke == \E i \in DOMAIN issued_vcs : RevokeCredential(i)
GWGenStart ==
  \E cr \in ProofCredentials, pi \in PrivateInputs :
     GenStart(1, cr, "access_control", pi)
GWGenTasksBegin == GenTasksBegin(1)
GWGenTaskAcquire == \E k \in TaskKinds : TaskAcquire(1, k)
GWGenBackendEnds == \E k \in TaskKinds : BackendEnds(1, k, "ok")
GWGenGatherDone == GenGatherDone(1)
GWGenProve == \E o \in {"ok", "fail"} : GenProve(1, o)
GWGenStore == GenStore(1)

\* Credential-based traffic: the gateway with its credential manager and the
\* registry's loader.
NextGWCred ==
  \/ GWAddPolicy /\ UNCHANGED <<clockVars, vcVars, didVars, zkpVars, verVars>>
  \/ GWHandle /\ UNCHANGED <<clockVars, vcVars, didVars, zkpVars, verVars>>
  \/ GWIssue /\ UNCHANGED <<clockVars, didVars, zkpVars, gwVars, verVars>>
  \/ GWRevoke /\ UNCHANGED <<clockVars, didVars, zkpVars, gwVars, verVars>>
  \/ DIDLoadRead /\ UNCHANGED <<clockVars, vcVars, zkpVars, gwVars, verVars>>
  \/ DIDLoadAssign /\ UNCHANGED <<clockVars, vcVars, zkpVars, gwVars, verVars>>

SpecGWCred == Init /\ [][NextGWCred]_vars

\* Proof-based traffic: the gateway with its prover.
NextGWProof ==
  \/ GWAddPolicy /\ UNCHANGED <<clockVars, vcVars, didVars, zkpVars, verVars>>
  \/ GWHandle /\ UNCHANGED <<clockVars, vcVars, didVars, zkpVars, verVars>>
  \/ GWGenStart /\ UNCHANGED <<clockVars, vcVars, didVars, gwVars, verVars>>
  \/ GWGenTasksBegin /\ UNCHANGED <<clockVars, vcVars, didVars, gwVars, verVars>>
  \/ GWGenTaskAcquire /\ UNCHANGED <<clockVars, vcVars, didVars, gwVars, verVars>>
  \/ GWGenBackendEnds /\ UNCHANGED <<clockVars, vcVars, didVars, gwVars, verVars>>
  \/ GWGenGatherDone /\ UNCHANGED <<clockVars, vcVars, didVars, gwVars, verVars>>
  \/ GWGenProve /\ UNCHANGED <<clockVars, vcVars, didVars, gwVars, verVars>>
  \/ GWGenStore /\ UNCHANGED <<clockVars, vcVars, didVars, gwVars, verVars>>

SpecGWProof == InitVC /\ [][NextGWProof]_vars

\* The gateway's decision cache over time: policies, requests and the clock.
NextGWCache ==
  \/ GWAddPolicy /\ UNCHANGED <<clockVars, vcVars, didVars, zkpVars, verVars>>
  \/ GWHandle /\ UNCHANGED <<clockVars, vcVars, didVars, zkpVars, verVars>>
  \/ VCTick /\ UNCHANGED <<vcVars, didVars, zkpVars, gwVars, verVars>>

SpecGWCache == InitVC /\ [][NextGWCache]_vars

\* The gateway's operations on its log: policies, requests, reading the log.
GWAddAnyPolicy ==
  \E r \in Resources, p \in AddablePolicies : AddAccessPolicy(r, p)
NextGWLog ==
  \/ GWAddAnyPolicy /\ UNCHANGED <<clockVars, vcVars, didVars, zkpVars, verVars>>
  \/ GWHandle /\ UNCHANGED <<clockVars, vcVars, didVars, zkpVars, verVars>>
  \/ GetAccessLogs /\ UNCHANGED <<clockVars, vcVars, didVars, zkpVars, verVars>>

SpecGWLog == InitVC /\ [][NextGWLog]_vars


(***************************************************************************)
(* Gateway properties.                                                     *)
(***************************************************************************)
Handled == gwLast.kind # "none"
Denied == gwLast.kind = "response" /\ ~gwLast.granted
Granted == gwLast.kind = "response" /\ gwLast.granted

\* C4: once a credential is revoked, every credential-based
\* handle_access_request presenting it is denied, a request whose decision
\* was cached before included.
C4_RevokedCredentialDenied ==
  (Handled /\ CredentialBased(gwLast.request) /\ gwLast.revoked) => Denied

\* A credential-based request for a revoked credential answered from the
\* decision cache.
C4_Witness ==
  /\ Handled /\ CredentialBased(gwLast.request)
  /\ gwLast.revoked /\ gwLast.hit /\ Denied

\* C5: a credential-based request is granted when the resource has a policy,
\* the issuer's DID resolves, the credential is unexpired, unrevoked and
\* signed with the issuer's key, and its attributes equal the policy's.
C5_ValidCredentialGranted ==
  ( /\ Handled /\ CredentialBased(gwLast.request)
    /\ gwLast.policy.kind = "inputs"
    /\ ~gwLast.hit
    /\ gwLast.issuer_known
    /\ ~gwLast.revoked /\ ~gwLast.expired
    /\ DidOfKey(gwLast.request.credential.jwt.signer)
          = gwLast.request.credential.issuer
    /\ AttributesMatch(gwLast.request.credential, gwLast.policy) )
  => Granted

\* C6: a proof-based request naming a proof held in proof_cache, on a
\* resource with a policy, returns granted = true whenever the backend's
\* verify step succeeds for the proof.
C6_CachedProofGranted ==
  ( /\ Handled /\ ProofBased(gwLast.request)
    /\ gwLast.policy.kind = "inputs"
    /\ gwLast.proof_known
    /\ gwLast.backend_verify = "ok" )
  => Granted

\* C7: a proof-based request whose proof id is not a key of proof_cache, on
\* a resource with a policy and with no cached decision, is denied with
\* reason "Invalid proof ID" and runs no backend command.
C7_UnknownProofDenied ==
  ( /\ Handled /\ ProofBased(gwLast.request)
    /\ ~PolicyFalsy(gwLast.policy)
    /\ ~gwLast.cached
    /\ ~gwLast.proof_known )
  => /\ Denied
     /\ gwLast.reason = "Invalid proof ID"
     /\ gwLast.backend = 0

\* A fabricated proof id presented while proof_cache holds a generated proof.
C7_Witness ==
  /\ Handled /\ ProofBased(gwLast.request)
  /\ gwLast.policy.kind = "inputs"
  /\ ~gwLast.cached /\ ~gwLast.proof_known
  /\ gwLast.request.proof_id = FabricatedProofId
  /\ proof_cache # <<>>
  /\ Denied

\* C8: a request for a resource without a policy is denied with reason
\* "No access policy found for resource", whatever its shape and whatever
\* access_cache holds.
C8_NoPolicyDenied ==
  (Handled /\ PolicyFalsy(gwLast.policy))
  => /\ Denied
     /\ gwLast.reason = "No access policy found for resource"
     /\ ~gwLast.stored

\* A request denied for want of a policy although access_cache holds a
\* decision under its key.
C8_Witness ==
  /\ Handled /\ PolicyFalsy(gwLast.policy)
  /\ gwLast.cached
  /\ Denied

\* C11: every handle_access_request call ends by returning a response with
\* a boolean granted flag and a reason; no failure of request or policy
\* shape, or of a subsystem, leaves the gateway as an exception.
C11_AlwaysResponds == Handled => gwLast.kind = "response"

\* C15: handle_access_request answers from access_cache only while the
\* entry is younger than cache_ttl; an older entry is not used and the
\* request is verified again.
C15_CacheHonoursTtl ==
  (Handled /\ gwLast.hit) => gwLast.age < gw_cache_ttl

\* C21: a credential-based request is granted only if the credential is
\* verified (issuer resolved, unrevoked, unexpired, signed by the issuer) and
\* its role and clearance equal the policy's; a request whose credential
\* differs from the policy in either attribute is denied.
C21_GrantNeedsAllAttributes ==
  (Handled /\ CredentialBased(gwLast.request)) =>
     /\ Granted =>
           /\ gwLast.policy.kind = "inputs"
           /\ gwLast.issuer_known /\ ~gwLast.revoked /\ ~gwLast.expired
           /\ DidOfKey(gwLast.request.credential.jwt.signer)
                 = gwLast.request.credential.issuer
           /\ AttributesMatch(gwLast.request.credential, gwLast.policy)
     /\ ~AttributesMatch(gwLast.request.credential, gwLast.policy) => Denied
\* A request decided by the credential branch, for a credential whose
\* attributes differ from the policy's, was denied.
C21_Witness ==
  /\ Handled /\ CredentialBased(gwLast.request)
  /\ gwLast.policy.kind = "inputs" /\ ~gwLast.hit /\ gwLast.stored
  /\ ~gwLast.revoked
  /\ ~AttributesMatch(gwLast.request.credential, gwLast.policy)
  /\ Denied

(***************************************************************************)
(* Proof pipeline properties.                                              *)
(***************************************************************************)
\* C9: a GenerateProof call that begins after a call with the same
\* (credentialId, proofType, issuanceDate) returned a proof returns a proof
\* with the same proofId and runs no backend command.
C9_GenerateProofIdempotent ==
  \A c \in GenCallers :
     genPrior[c] # {} =>
        /\ genPc[c] = "done"
        /\ genRet[c].kind = "proof"
        /\ \A d \in genPrior[c] : genRet[d].proof_id = genRet[c].proof_id
        /\ genCalls[c] = 0

\* A second call with the same inputs has returned, after a first one that
\* ran the backend.
C9_Witness ==
  \E c \in GenCallers :
     /\ genPc[c] = "done" /\ genRet[c].kind = "proof"
     /\ \E d \in genPrior[c] : genCalls[d] > 0

\* A backend command of the compile, setup or compute-witness stage that a
\* task is waiting for.
StageCommands ==
  {cmd \in backend : cmd.stage \in {"compile", "setup", "witness"} /\ ~cmd.orphan}

\* C14: when a backend command run for a generate_proof call exits
\* non-zero, the call surfaces a failure to its caller (it raises); it does
\* not return a value that reads as "no proof".
C14_BackendFailureSurfaced ==
  \A c \in GenCallers :
     (genPc[c] = "done" /\ \E f \in genFailed[c] : f[2] = "fail")
        => genRet[c].kind = "raise"

\* C17: no two backend commands of the compile, setup or compute-witness
\* stages for the same circuit are in flight at once.
C17_SameCircuitSerialized ==
  \A x, y \in StageCommands : x # y => x.circuit # y.circuit

\* Tasks that wait for _circuit_lock while a task of another circuit holds
\* it for its compile or setup command.
BlockedByOtherCircuit ==
  {ck \in GenCallers \X TaskKinds :
     /\ genTask[ck[1]][ck[2]].phase = "lock"
     /\ circuit_lock # NoHolder
     /\ genReq[circuit_lock[1]].proof_type # genReq[ck[1]].proof_type}

\* C18: compile and setup of one circuit never wait for a compile or setup
\* of a different circuit.
C18_CircuitsIndependent == BlockedByOtherCircuit = {}

\* C28: the backend commands of a circuit start in the order compile, setup,
\* compute-witness, generate-proof: a setup command starts only after a
\* compile of its circuit has succeeded, a compute-witness command only after
\* a setup of its circuit has succeeded, and the generate-proof command of a
\* call only after the witness for the call's inputs has been computed.
\* (A cache holds a circuit from the step in which its command exited with 0;
\* the task that waited for it may start the next command in that same step.)
C28_StagesInOrder ==
  [][\A cmd \in backend' \ backend :
        /\ cmd.stage = "setup" => cmd.circuit \in circuit_cache'
        /\ cmd.stage = "witness" => cmd.circuit \in setup_cache'
        /\ cmd.stage = "prove" => genReq[cmd.caller].witness \in witness_cache']_vars
\* The generate-proof command of a call is running after the three stages
\* before it were run for the call's circuit.
C28_Witness ==
  \E cmd \in backend :
     /\ cmd.stage = "prove" /\ ~cmd.orphan
     /\ cmd.circuit \in circuit_cache \cap setup_cache
     /\ genReq[cmd.caller].witness \in witness_cache
     /\ genCalls[cmd.caller] = 4

C31_WitnessOnce ==
  \A cmd \in backend :
     (cmd.stage = "witness" /\ ~cmd.orphan) =>
        /\ genReq[cmd.caller].witness \notin witness_cache
        /\ \A other \in backend :
              (other.stage = "witness" /\ ~other.orphan
                 /\ genReq[other.caller].witness = genReq[cmd.caller].witness)
                => other = cmd

\* C32: a verify_proof call returns True only if its verify command exited
\* with 0 or the verifier key was in _verifier_cache, and a key enters
\* _verifier_cache only in a call whose verify command exited with 0; so a
\* call that failed leaves nothing that makes a later call return True.
C32_TrueOnlyIfVerified ==
  [][/\ (verLast' # verLast /\ verLast'.result) =>
           (verLast'.exit = "ok" \/ VerifierKey(verLast'.proof) \in verifier_cache)
     /\ verifier_cache' # verifier_cache =>
           (verLast'.exit = "ok"
              /\ verifier_cache' = verifier_cache \cup {VerifierKey(verLast'.proof)})
     /\ (verLast'.kind = "returned" /\ verLast'.again /\ verLast'.result) =>
           verLast'.exit = "ok"]_vars
\* A proof that generate_proof returned was verified a second time after a
\* call for it had failed: the second call returned False as well and the
\* verifier cache does not hold its key.
C32_Witness ==
  /\ verLast.kind = "returned" /\ verLast.proof.form = "returned"
  /\ verLast.again /\ ~verLast.result
  /\ VerifierKey(verLast.proof) \notin verifier_cache
  /\ verLast.proof.proof_id \in DOMAIN proof_cache

\* C33: every step of the gateway leaves the entries of access_logs where
\* and as they are and at most appends to them.
C33_LogAppendOnly ==
  [][/\ Len(access_logs') >= Len(access_logs)
     /\ SubSeq(access_logs', 1, Len(access_logs)) = access_logs]_vars
\* The log was read when it had one entry and a further request was logged
\* after that: the entry that was read is still the first one.
C33_Witness ==
  /\ logs_read.read /\ Len(logs_read.logs) = 1
  /\ Len(access_logs) = 2
  /\ access_logs[1] = logs_read.logs[1]

\* C34: a handle_access_request call for a resource with a policy that was
\* not answered from access_cache and returned a response has appended a log
\* entry and stored a cache entry, both with the granted flag and the reason
\* of the response.
C34_DecisionRecorded ==
  ( /\ Handled /\ gwLast.kind = "response"
    /\ ~PolicyFalsy(gwLast.policy)
    /\ ~gwLast.hit )
  => /\ gwLast.stored
     /\ Len(access_logs) > 0
     /\ access_logs[Len(access_logs)].granted = gwLast.is_valid
     /\ access_logs[Len(access_logs)].reason = gwLast.reason
     /\ GetCacheKey(gwLast.request) \in DOMAIN access_cache
     /\ access_cache[GetCacheKey(gwLast.request)].is_valid = gwLast.is_valid
     /\ access_cache[GetCacheKey(gwLast.request)].reason = gwLast.reason

\* C35: an entry is added to the prover's circuit, setup or witness cache
\* only by a task that holds _circuit_lock, the one lock a stage task takes,
\* while it writes.
C35_WritesUnderGuard ==
  [][(circuit_cache' # circuit_cache \/ setup_cache' # setup_cache
        \/ witness_cache' # witness_cache)
      => \E cmd \in backend \ backend' :
            circuit_lock = <<cmd.caller, cmd.task>>]_vars

\* C36: a generate_proof call for a circuit whose source exists, none of
\* whose own backend commands failed or timed out and whose gather did not
\* time out, returns a proof, whatever became of the other calls: its tasks
\* are not cancelled by another call's failure and it is not refused a
\* backend command.
C36_FailureIsolated ==
  \A d \in GenCallers :
     ( /\ genPc[d] = "done"
       /\ genReq[d].proof_type \in CircuitSources
       /\ genFailed[d] = {} )
     => genRet[d].kind = "proof"

\* C37: the proof stored in proof_cache under a proof id was made by the
\* generate-proof command of a call for that id's credential and circuit.
C37_OwnProofStored ==
  \A pid \in DOMAIN proof_cache :
     /\ proof_cache[pid].blob[1] = pid[2]
     /\ proof_cache[pid].blob[2] = pid[1]

\* C38: when the witness task of a call returns the witness path, from
\* _witness_cache or after its own compute-witness command, the circuit's
\* witness file holds the witness computed from that call's inputs.
C38_WitnessMatchesInputs ==
  [][\A c \in GenCallers :
        ( /\ genTask'[c]["witness"] = TaskState("witness", "done")
          /\ genTask[c]["witness"] # TaskState("witness", "done") )
        => witness_file'[genReq[c].proof_type] = genReq[c].witness]_vars

\* C39: after a create_did call whose save failed, the DID it generated is
\* in neither did_documents nor did_cache.
C39_FailedCreateLeavesNothing ==
  \A t \in DidCallers :
     (didOp[t] = "create" /\ didPc[t] = "done" /\ didRet[t].save = "failed")
     => /\ didRet[t].did \notin DOMAIN did_documents
        /\ didRet[t].did \notin DOMAIN did_cache

\* C19: a generate_proof call in which a backend stage outlasted its timeout
\* returns a Timeout failure, and once it has returned none of its compile,
\* setup and witness tasks is pending.
C19_TimeoutReturned ==
  \A c \in GenCallers :
     (genPc[c] = "done" /\ \E f \in genFailed[c] : f[2] = "timeout")
        => /\ genRet[c].kind = "timeout"
           /\ \A k \in TaskKinds : ~TaskPending(genTask[c][k])

\* C20: within one generate_proof call a stage whose backend command has
\* failed or timed out is not run again.
C20_NoStageRetried == \A c \in GenCallers : ~genRetried[c]

(***************************************************************************)
(* DID registry properties.                                                *)
(***************************************************************************)
\* C10: a ResolveDID(d) that runs while RevokeDID(d) is in flight never reads
\* the registry with d removed from did_documents but still in did_cache, and
\* what it returns is the complete document or NotFound.
C10_ResolveNeverSeesHalfRevoke ==
  \A t \in DidCallers :
     didOp[t] = "resolve" =>
        /\ ~didRet[t].half
        /\ didRet[t].kind \in {"none", "doc", "notfound"}
        /\ didRet[t].kind = "doc" => didRet[t].ok

\* A resolve_did(d) returned the document while a revoke_did(d) was in flight.
C10_Witness ==
  \E t \in DidCallers :
     /\ didOp[t] = "resolve" /\ didPc[t] = "done"
     /\ didRet[t].kind = "doc" /\ didRet[t].revoking

(***************************************************************************)
(* Credential subsystem properties.                                        *)
(***************************************************************************)
\* The last call was verify_credential on a credential exactly as issued.
VerifiedIssued == vcLast.op = "verify" /\ vcLast.issued

\* ... and the public key given is the one matching the signing private key.
VerifiedWithMatchingKey ==
  VerifiedIssued /\ issued_vcs[vcLast.id].jwt.signer = vcLast.key

\* C1: a credential returned by IssueCredential verifies true under the
\* issuer's matching public key while it is unexpired and unrevoked.
C1_IssueVerifyRoundTrip ==
  (VerifiedWithMatchingKey /\ ~vcLast.revoked /\ ~vcLast.expired)
     => vcLast.result = TRUE

\* C2: a VerifyCredential call on an issued credential that starts after the
\* credential id was revoked returns false, whatever was cached before.
C2_RevokedNeverVerifies ==
  (VerifiedIssued /\ vcLast.revoked) => vcLast.result = FALSE

\* C3: a VerifyCredential call on an issued credential made when
\* now > expirationDate returns false, whatever was cached before.
C3_ExpiredNeverVerifies ==
  (VerifiedIssued /\ vcLast.expired) => vcLast.result = FALSE

\* C16: revoked_vcs only grows: no step of issue_credential,
\* verify_credential or revoke_credential takes an id out of it, and a
\* revoke_credential for an id already in the set leaves the set as it was.
C16_RevocationSetGrows ==
  [][/\ revoked_vcs \subseteq revoked_vcs'
     /\ (vcLast'.op = "revoke" /\ vcLast'.id \in revoked_vcs)
           => revoked_vcs' = revoked_vcs]_vars
\* A credential has been revoked a second time.
C16_Witness ==
  /\ vcLast.op = "revoke" /\ vcLast.result /\ vcLast.revoked
  /\ vcLast.id \in revoked_vcs

\* C25: once revoke_credential(id) has returned, id is in revoked_vcs,
\* whether or not this VCManager issued the credential.
C25_RevokeAlwaysAdds ==
  vcLast.op = "revoke" => vcLast.id \in revoked_vcs

\* C26: an issue_credential call never replaces a credential already in
\* issued_vcs: every stored credential stays stored as it was issued.
C26_IssueNeverOverwrites ==
  [][\A i \in DOMAIN issued_vcs :
        i \in DOMAIN issued_vcs' /\ issued_vcs'[i] = issued_vcs[i]]_vars

\* C27: a verify_credential call that is not answered from an unexpired
\* cache entry leaves its result, True or False, in verification_cache
\* under (credential id, public key) with the time of the call.
C27_VerificationCached ==
  [][(vcLast'.op = "verify" /\ ~vcLast'.hit /\ now' = now) =>
        LET key == <<vcLast'.id, vcLast'.key>> IN
        /\ key \in DOMAIN verification_cache'
        /\ verification_cache'[key] = [valid |-> vcLast'.result, ts |-> now]]_vars
\* A failed verification of a revoked credential has just been cached, and
\* the cache holds a successful one as well.
C27_Witness ==
  /\ vcLast.op = "verify" /\ ~vcLast.hit /\ vcLast.revoked /\ ~vcLast.result
  /\ <<vcLast.id, vcLast.key>> \in DOMAIN verification_cache
  /\ verification_cache[<<vcLast.id, vcLast.key>>] = [valid |-> FALSE, ts |-> now]
  /\ \E k \in DOMAIN verification_cache : verification_cache[k].valid

\* C12: every create_did call eventually completes, by returning or by
\* raising the persistence failure; it never waits for the registry lock
\* for ever.
C12_CreateCompletes ==
  \A t \in DidCallers : (didOp[t] = "create") ~> (didPc[t] = "done")

\* C13: when create_did returns (did, document) the document is in the
\* storage file, and when the save fails create_did raises instead of
\* returning.
C13_CreatedIsPersisted ==
  \A t \in DidCallers :
     didOp[t] = "create" =>
        /\ didRet[t].kind = "created" =>
              /\ didRet[t].save # "failed"
              /\ didArg[t] \in DOMAIN storage_file.docs
        /\ didRet[t].save = "failed" => didRet[t].kind = "raise"

\* A create_did call whose save failed has ended by raising.
C13_Witness ==
  \E t \in DidCallers :
     /\ didOp[t] = "create" /\ didPc[t] = "done"
     /\ didRet[t].save = "failed" /\ didRet[t].kind = "raise"
     /\ didArg[t] \notin DOMAIN storage_file.docs

\* C22: a resolve_did call that found the DID neither in did_cache nor in
\* did_documents and turned to the storage file returns, with the document
\* or with None.
C22_ResolveReturns ==
  \A t \in DidCallers :
     (didOp[t] = "resolve" /\ didPc[t] = "reload_lock")
        ~> (didPc[t] = "done" /\ didRet[t].kind \in {"doc", "notfound"})

\* C24: a revoke_did call for a DID that is not in did_documents returns
\* False and leaves did_documents, did_cache and the storage file as they
\* were.
C24_RevokeUnknownChangesNothing ==
  [][\A t \in DidCallers :
        ( /\ didOp[t] = "revoke" /\ didPc[t] = "revoke_lock"
          /\ didPc'[t] # "revoke_lock"
          /\ didArg[t] \notin DOMAIN did_documents )
        => /\ didPc'[t] = "done"
           /\ didRet'[t].kind = "bool" /\ ~didRet'[t].ok
           /\ did_documents' = did_documents
           /\ did_cache' = did_cache
           /\ storage_file' = storage_file]_vars
\* revoke_did has returned for a DID that was not in did_documents, while
\* the registry holds another document.
C24_Witness ==
  \E t \in DidCallers :
     /\ didOp[t] = "revoke" /\ didPc[t] = "done"
     /\ didRet[t].kind = "bool" /\ ~didRet[t].ok /\ didRet[t].save = "none"
     /\ didArg[t] \notin DOMAIN did_documents
     /\ did_documents # <<>> /\ did_cache # <<>>
====
